---- MODULE Spec2Model ----
(***************************************************************************)
(* A model of the @rustify/option and @rustify/result packages: the two    *)
(* container classes, their combinators and the free helper functions.     *)
(* Containers live on a heap so that identity (which instance a call       *)
(* returns) and immutability (no instance ever changes) are observable.    *)
(***************************************************************************)
EXTENDS Integers, Sequences, FiniteSets, TLC

VARIABLES
    pkg,      \* which package the program under test imports: "option" or "result"
    heap,     \* the container instances constructed so far, in allocation order
    last,     \* the most recent completed call: operation, receiver, arguments, outcome
    promise,  \* the promise handed to the wrapAsync call in flight
    task      \* the async function invocation of wrapAsync: its position and outcome

vars == <<pkg, heap, last, promise, task>>

(***************************************************************************)
(* Bounds of the model.                                                    *)
(***************************************************************************)
MaxHeap == 2   \* the client makes calls while at most this many containers exist
MaxLen == 2    \* length of the arrays handed to collect / transpose / findSome

(***************************************************************************)
(* JavaScript values.  Every value is a record of one shape: its type tag  *)
(* t, a number n (the number itself, a boolean as 0/1, an object's heap    *)
(* address, an error's identity), a string s (the string itself, an        *)
(* error's message, a function's name) and the elements a of an array.     *)
(***************************************************************************)
JsVal(t, n, s, a) == [t |-> t, n |-> n, s |-> s, a |-> a]

JsNull == JsVal("null", 0, "", <<>>)
JsUndefined == JsVal("undefined", 0, "", <<>>)
Num(k) == JsVal("number", k, "", <<>>)
Bool(b) == JsVal("boolean", IF b THEN 1 ELSE 0, "", <<>>)
Str(s) == JsVal("string", 0, s, <<>>)
Arr(a) == JsVal("array", 0, "", a)
Ref(i) == JsVal("object", i, "", <<>>)
ErrorObj(id, msg) == JsVal("error", id, msg, <<>>)
Fn(name, r) == JsVal("function", r, name, <<>>)

\* The primitives the program feeds in: both "missing" sentinels, the falsy
\* values 0, false and "", and a truthy value.
Prims == {JsNull, JsUndefined, Num(0), Num(1), Bool(FALSE), Str("")}

\* Payloads handed to Some / Ok by the program.
Payloads == {JsUndefined, Num(0), Num(1)}

\* Two distinct error objects with the same message, thrown by user callbacks
\* and used as rejection reasons; and the payloads handed to Err.
UserErrors == {ErrorObj(1, "test error"), ErrorObj(2, "test error")}
ErrPayloads == {Str("error"), ErrorObj(1, "test error")}

\* Errors raised by the library itself: new Error(message).
LibError(msg) == ErrorObj(0, msg)

\* JavaScript truthiness (ToBoolean) of a value.
Truthy(v) ==
    CASE v.t \in {"null", "undefined"} -> FALSE
      [] v.t \in {"number", "boolean"} -> v.n # 0
      [] v.t = "string" -> v.s # ""
      [] OTHER -> TRUE

\* The default string form of a value, as a template literal computes it.
RECURSIVE Join(_)
Join(a) ==
    IF a = <<>> THEN ""
    ELSE LET h == Head(a)
             hs == CASE h.t \in {"null", "undefined"} -> ""
                     [] h.t = "number" -> IF h.n = 0 THEN "0" ELSE "1"
                     [] h.t = "boolean" -> IF h.n = 0 THEN "false" ELSE "true"
                     [] h.t = "string" -> h.s
                     [] OTHER -> "[object]"
         IN IF Len(a) = 1 THEN hs ELSE hs \o "," \o Join(Tail(a))

ToStr(v) ==
    CASE v.t = "null" -> "null"
      [] v.t = "undefined" -> "undefined"
      [] v.t = "number" -> IF v.n = 0 THEN "0" ELSE "1"
      [] v.t = "boolean" -> IF v.n = 0 THEN "false" ELSE "true"
      [] v.t = "string" -> v.s
      [] v.t = "error" -> "Error: " \o v.s
      [] v.t = "array" -> Join(v.a)
      [] v.t = "function" -> "[function " \o v.s \o "]"
      [] OTHER -> "[object Object]"

(***************************************************************************)
(* The outcome of a call: the heap after it, whether it raised, the value  *)
(* it returned (or the error it threw), and the user callbacks it invoked, *)
(* in order.                                                               *)
(***************************************************************************)
Return(h, v, calls) == [h |-> h, threw |-> FALSE, val |-> v, calls |-> calls]
Throw(h, e, calls) == [h |-> h, threw |-> TRUE, val |-> e, calls |-> calls]

\* `new C(...)`: the instance is appended to the heap; its address is returned.
New(h, obj) == Return(Append(h, obj), Ref(Len(h) + 1), <<>>)

(***************************************************************************)
(* User callbacks.  A callback is a function value whose name says what it *)
(* does; Invoke runs it.                                                   *)
(***************************************************************************)
\* T -> U callbacks: identity, a constant, and one that throws.
ValueFns == {Fn("identity", 0), Fn("constUndefined", 0), Fn("constOne", 0), Fn("throw1", 0)}

\* predicates for filter
PredFns == {Fn("truthy", 0), Fn("throw1", 0)}

\* () -> T thunks handed to wrapSync: return a value, or throw one of two errors
ThunkFns == {Fn("constUndefined", 0), Fn("constOne", 0), Fn("throw1", 0), Fn("throw2", 0)}

(***************************************************************************)
(* class Option<T>                                                         *)
(***************************************************************************)
OptionObj(isSome, value) == [cls |-> "Option", _isSome |-> isSome, _value |-> value]

\* static some(value)
OptionSome(h, value) == New(h, OptionObj(TRUE, value))

\* static none()
OptionNone(h) == New(h, OptionObj(FALSE, JsUndefined))

\* a fromNullable that tests truthiness (`value ? ... : ...`) instead of `!= null`
OptionFromNullableTruthy(h, value) ==
    IF Truthy(value) THEN OptionSome(h, value) ELSE OptionNone(h)

\* static fromNullable(value): `value != null` is false for null and undefined only
OptionFromNullable(h, value) ==
    IF value.t \notin {"null", "undefined"} THEN OptionSome(h, value) ELSE OptionNone(h)

(***************************************************************************)
(* class Result<T, E>                                                      *)
(***************************************************************************)
ResultObj(isOk, value, error) ==
    [cls |-> "Result", _isOk |-> isOk, _value |-> value, _error |-> error]

\* static ok(value)
ResultOk(h, value) == New(h, ResultObj(TRUE, value, JsUndefined))

\* static err(error)
ResultErr(h, error) == New(h, ResultObj(FALSE, JsUndefined, error))

(***************************************************************************)
(* Running a user callback on the argument list args.                      *)
(***************************************************************************)
Arg1(args) == IF args = <<>> THEN JsUndefined ELSE args[1]

\* The arrow function `v => f(v).andThen(g)` built from two callbacks.
Compose(f, g) == JsVal("function", 0, "compose", <<f, g>>)

RECURSIVE Invoke(_, _, _), OptionAndThen(_, _, _), ResultAndThen(_, _, _)
Invoke(h, fn, args) ==
    CASE fn.s = "identity" -> Return(h, Arg1(args), <<>>)
      [] fn.s = "constUndefined" -> Return(h, JsUndefined, <<>>)
      [] fn.s = "constOne" -> Return(h, Num(1), <<>>)
      [] fn.s = "truthy" -> Return(h, Bool(Truthy(Arg1(args))), <<>>)
      [] fn.s = "throw1" -> Throw(h, ErrorObj(1, "test error"), <<>>)
      [] fn.s = "throw2" -> Throw(h, ErrorObj(2, "test error"), <<>>)
      [] fn.s = "toSome" -> OptionSome(h, Arg1(args))
      [] fn.s = "toNone" -> OptionNone(h)
      [] fn.s = "toOk" -> ResultOk(h, Arg1(args))
      [] fn.s = "toErr" -> ResultErr(h, Arg1(args))
      [] fn.s = "constRef" -> Return(h, Ref(fn.n), <<>>)
      [] fn.s = "compose" ->
            LET r == Invoke(h, fn.a[1], args)
            IN IF r.threw THEN r
               ELSE IF r.h[r.val.n].cls = "Option"
                    THEN OptionAndThen(r.h, r.val.n, fn.a[2])
                    ELSE ResultAndThen(r.h, r.val.n, fn.a[2])

\* The outcome of a method that ends by handing back what callback `name`
\* produced: the callback's outcome, with the invocation recorded.
Called(r, name) == [r EXCEPT !.calls = <<name>>]

(***************************************************************************)
(* Option: inspection                                                      *)
(***************************************************************************)
OptionIsSome(h, this) == Return(h, Bool(h[this]._isSome), <<>>)

\* an isNone that looks at the payload slot instead of the discriminant
OptionIsNoneByValue(h, this) == Return(h, Bool(h[this]._value = JsUndefined), <<>>)

OptionIsNone(h, this) == Return(h, Bool(~h[this]._isSome), <<>>)

\* get value()
OptionValue(h, this) ==
    IF ~h[this]._isSome
    THEN Throw(h, LibError("Called value on a None option"), <<>>)
    ELSE Return(h, h[this]._value, <<>>)

(***************************************************************************)
(* Option: transformation                                                  *)
(***************************************************************************)
\* a map that overwrites the receiver's payload instead of constructing
OptionMapInPlace(h, this, fn) ==
    IF h[this]._isSome
    THEN LET r == Invoke(h, fn, <<h[this]._value>>)
         IN IF r.threw THEN Called(r, "fn")
            ELSE Return([r.h EXCEPT ![this]._value = r.val], Ref(this), <<"fn">>)
    ELSE OptionNone(h)

\* a map that turns a missing result of fn into None (fromNullable on fn's result)
OptionMapNullable(h, this, fn) ==
    IF h[this]._isSome
    THEN LET r == Invoke(h, fn, <<h[this]._value>>)
         IN IF r.threw THEN Called(r, "fn")
            ELSE Called(OptionFromNullable(r.h, r.val), "fn")
    ELSE OptionNone(h)

OptionMap(h, this, fn) ==
    IF h[this]._isSome
    THEN LET r == Invoke(h, fn, <<h[this]._value>>)
         IN IF r.threw THEN Called(r, "fn")
            ELSE Called(OptionSome(r.h, r.val), "fn")
    ELSE OptionNone(h)

OptionMapOr(h, this, defaultValue, fn) ==
    IF h[this]._isSome
    THEN Called(Invoke(h, fn, <<h[this]._value>>), "fn")
    ELSE Return(h, defaultValue, <<>>)

OptionMapOrElse(h, this, defaultFn, fn) ==
    IF h[this]._isSome
    THEN Called(Invoke(h, fn, <<h[this]._value>>), "fn")
    ELSE Called(Invoke(h, defaultFn, <<>>), "defaultFn")

\* a filter that rebuilds the receiver when the predicate accepts its value
OptionFilterCopy(h, this, predicate) ==
    IF h[this]._isSome
    THEN LET r == Invoke(h, predicate, <<h[this]._value>>)
         IN IF r.threw THEN Called(r, "predicate")
            ELSE IF Truthy(r.val) THEN Called(OptionSome(r.h, h[this]._value), "predicate")
            ELSE Called(OptionNone(r.h), "predicate")
    ELSE OptionNone(h)

OptionFilter(h, this, predicate) ==
    IF h[this]._isSome
    THEN LET r == Invoke(h, predicate, <<h[this]._value>>)
         IN IF r.threw THEN Called(r, "predicate")
            ELSE IF Truthy(r.val) THEN Return(r.h, Ref(this), <<"predicate">>)
            ELSE Called(OptionNone(r.h), "predicate")
    ELSE OptionNone(h)

(***************************************************************************)
(* Option: chaining                                                        *)
(***************************************************************************)
OptionAnd(h, this, other) ==
    IF h[this]._isSome THEN Return(h, other, <<>>) ELSE OptionNone(h)

\* an andThen with the body of map: it wraps what fn returns in a new Some
OptionAndThenAsMap(h, this, fn) == OptionMap(h, this, fn)

OptionAndThen(h, this, fn) ==
    IF h[this]._isSome
    THEN Called(Invoke(h, fn, <<h[this]._value>>), "fn")
    ELSE OptionNone(h)

OptionOr(h, this, other) ==
    IF h[this]._isSome THEN Return(h, Ref(this), <<>>) ELSE Return(h, other, <<>>)

OptionOrElse(h, this, fn) ==
    IF h[this]._isSome THEN Return(h, Ref(this), <<>>)
    ELSE Called(Invoke(h, fn, <<>>), "fn")

(***************************************************************************)
(* Option: unwrapping and conversion                                       *)
(***************************************************************************)
OptionUnwrap(h, this) ==
    IF h[this]._isSome THEN Return(h, h[this]._value, <<>>)
    ELSE Throw(h, LibError("Called unwrap on a None value"), <<>>)

OptionUnwrapOr(h, this, defaultValue) ==
    IF h[this]._isSome THEN Return(h, h[this]._value, <<>>)
    ELSE Return(h, defaultValue, <<>>)

\* an unwrapOrElse that computes the fallback before looking at the receiver
OptionUnwrapOrElseEager(h, this, fn) ==
    LET r == Called(Invoke(h, fn, <<>>), "fn")
    IN IF r.threw \/ ~h[this]._isSome THEN r
       ELSE Return(r.h, h[this]._value, <<"fn">>)

OptionUnwrapOrElse(h, this, fn) ==
    IF h[this]._isSome THEN Return(h, h[this]._value, <<>>)
    ELSE Called(Invoke(h, fn, <<>>), "fn")

\* an expect that appends a suffix to the caller's message, as Result's does
OptionExpectSuffixed(h, this, message) ==
    IF h[this]._isSome THEN Return(h, h[this]._value, <<>>)
    ELSE Throw(h, LibError(message.s \o ": None"), <<>>)

OptionExpect(h, this, message) ==
    IF h[this]._isSome THEN Return(h, h[this]._value, <<>>)
    ELSE Throw(h, LibError(message.s), <<>>)

\* a toNullable written with `||`: every falsy payload becomes null
OptionToNullableFalsy(h, this) ==
    Return(h, IF h[this]._isSome /\ Truthy(h[this]._value) THEN h[this]._value ELSE JsNull, <<>>)

OptionToNullable(h, this) ==
    Return(h, IF h[this]._isSome THEN h[this]._value ELSE JsNull, <<>>)

OptionToUndefined(h, this) ==
    Return(h, IF h[this]._isSome THEN h[this]._value ELSE JsUndefined, <<>>)

(***************************************************************************)
(* Result: inspection                                                      *)
(***************************************************************************)
ResultIsOk(h, this) == Return(h, Bool(h[this]._isOk), <<>>)

ResultIsErr(h, this) == Return(h, Bool(~h[this]._isOk), <<>>)

\* get value()
ResultValue(h, this) ==
    IF ~h[this]._isOk
    THEN Throw(h, LibError("Called value on an Err result"), <<>>)
    ELSE Return(h, h[this]._value, <<>>)

\* get error()
ResultError(h, this) ==
    IF h[this]._isOk
    THEN Throw(h, LibError("Called error on an Ok result"), <<>>)
    ELSE Return(h, h[this]._error, <<>>)

\* get ok()
ResultOkProp(h, this) == Return(h, Bool(h[this]._isOk), <<>>)

(***************************************************************************)
(* Result: transformation and chaining                                     *)
(***************************************************************************)
\* a map that rebuilds a Failure from the text of its error
ResultMapCoerce(h, this, fn) ==
    IF h[this]._isOk
    THEN LET r == Invoke(h, fn, <<h[this]._value>>)
         IN IF r.threw THEN Called(r, "fn")
            ELSE Called(ResultOk(r.h, r.val), "fn")
    ELSE ResultErr(h, Str(ToStr(h[this]._error)))

ResultMap(h, this, fn) ==
    IF h[this]._isOk
    THEN LET r == Invoke(h, fn, <<h[this]._value>>)
         IN IF r.threw THEN Called(r, "fn")
            ELSE Called(ResultOk(r.h, r.val), "fn")
    ELSE Return(h, Ref(this), <<>>)

ResultMapErr(h, this, fn) ==
    IF h[this]._isOk
    THEN Return(h, Ref(this), <<>>)
    ELSE LET r == Invoke(h, fn, <<h[this]._error>>)
         IN IF r.threw THEN Called(r, "fn")
            ELSE Called(ResultErr(r.h, r.val), "fn")

\* an `and` that never looks at the receiver
ResultAndOther(h, this, other) == Return(h, other, <<>>)

ResultAnd(h, this, other) ==
    IF h[this]._isOk THEN Return(h, other, <<>>) ELSE Return(h, Ref(this), <<>>)

ResultAndThen(h, this, fn) ==
    IF h[this]._isOk
    THEN Called(Invoke(h, fn, <<h[this]._value>>), "fn")
    ELSE Return(h, Ref(this), <<>>)

ResultOr(h, this, other) ==
    IF h[this]._isOk THEN Return(h, Ref(this), <<>>) ELSE Return(h, other, <<>>)

ResultOrElse(h, this, fn) ==
    IF h[this]._isOk THEN Return(h, Ref(this), <<>>)
    ELSE Called(Invoke(h, fn, <<h[this]._error>>), "fn")

(***************************************************************************)
(* Result: unwrapping                                                      *)
(***************************************************************************)
ResultUnwrap(h, this) ==
    IF h[this]._isOk THEN Return(h, h[this]._value, <<>>)
    ELSE Throw(h, LibError("Called unwrap on an Err value: " \o ToStr(h[this]._error)), <<>>)

ResultUnwrapOr(h, this, defaultValue) ==
    IF h[this]._isOk THEN Return(h, h[this]._value, <<>>)
    ELSE Return(h, defaultValue, <<>>)

ResultUnwrapOrElse(h, this, fn) ==
    IF h[this]._isOk THEN Return(h, h[this]._value, <<>>)
    ELSE Called(Invoke(h, fn, <<h[this]._error>>), "fn")

\* an expect that raises the caller's message verbatim, as Option's does
ResultExpectVerbatim(h, this, message) ==
    IF h[this]._isOk THEN Return(h, h[this]._value, <<>>)
    ELSE Throw(h, LibError(message.s), <<>>)

ResultExpect(h, this, message) ==
    IF h[this]._isOk THEN Return(h, h[this]._value, <<>>)
    ELSE Throw(h, LibError(message.s \o ": " \o ToStr(h[this]._error)), <<>>)

(***************************************************************************)
(* Option helpers (helpers.ts of the option package)                       *)
(***************************************************************************)
\* The expression `Option.none`: the static method itself, a function value.
\* It is not called, so no Option is constructed.
StaticOptionNone == Fn("Option.none", 0)

\* export const None = Option.none: the same function value under another name.
None == StaticOptionNone

\* new TypeError(message), raised by the runtime
TypeError(msg) == ErrorObj(0, "TypeError: " \o msg)

\* receiver.name(...args): the method of class Option when the receiver is an
\* instance; a function object has none of these properties, and calling the
\* undefined property raises a TypeError.
CallMethod(h, receiver, name, args) ==
    IF receiver.t = "object" /\ h[receiver.n].cls = "Option"
    THEN CASE name = "isSome" -> OptionIsSome(h, receiver.n)
           [] name = "isNone" -> OptionIsNone(h, receiver.n)
           [] name = "map" -> OptionMap(h, receiver.n, args[1])
           [] name = "unwrapOr" -> OptionUnwrapOr(h, receiver.n, args[1])
           [] name = "or" -> OptionOr(h, receiver.n, args[1])
    ELSE Throw(h, TypeError(name \o " is not a function"), <<>>)

\* wrapSync(fn)
OptionWrapSync(h, fn) ==
    LET r == Invoke(h, fn, <<>>)
    IN IF r.threw THEN Return(r.h, StaticOptionNone, <<"fn">>)
       ELSE Called(OptionSome(r.h, r.val), "fn")

\* collect(options): the for-of loop from element k on, `values` so far
RECURSIVE OptionCollectFrom(_, _, _, _)
OptionCollectFrom(h, options, k, values) ==
    IF k > Len(options) THEN OptionSome(h, Arr(values))
    ELSE LET option == options[k].n
         IN IF Truthy(OptionIsSome(h, option).val)
            THEN LET v == OptionValue(h, option)
                 IN IF v.threw THEN v
                    ELSE OptionCollectFrom(h, options, k + 1, Append(values, v.val))
            ELSE Return(h, StaticOptionNone, <<>>)

OptionCollect(h, options) == OptionCollectFrom(h, options.a, 1, <<>>)

\* transpose(options): options.filter(isSome).map(value), element k on
RECURSIVE OptionTransposeFrom(_, _, _, _)
OptionTransposeFrom(h, options, k, values) ==
    IF k > Len(options) THEN Return(h, Arr(values), <<>>)
    ELSE LET v == OptionValue(h, options[k].n)
         IN IF v.threw THEN v
            ELSE OptionTransposeFrom(h, options, k + 1, Append(values, v.val))

\* a transpose that stops at the first None, as collect does
OptionTransposeUntilNone(h, options) ==
    LET isNoneAt(k) == ~Truthy(OptionIsSome(h, options.a[k].n).val)
        stop == IF \E k \in 1..Len(options.a) : isNoneAt(k)
                THEN (CHOOSE k \in 1..Len(options.a) :
                        isNoneAt(k) /\ \A m \in 1..(k - 1) : ~isNoneAt(m)) - 1
                ELSE Len(options.a)
    IN OptionTransposeFrom(h, SubSeq(options.a, 1, stop), 1, <<>>)

OptionTranspose(h, options) ==
    LET kept == SelectSeq(options.a, LAMBDA o : Truthy(OptionIsSome(h, o.n).val))
    IN OptionTransposeFrom(h, kept, 1, <<>>)

\* findSome(options): the for-of loop from element k on
RECURSIVE OptionFindSomeFrom(_, _, _)
OptionFindSomeFrom(h, options, k) ==
    IF k > Len(options) THEN Return(h, StaticOptionNone, <<>>)
    ELSE IF Truthy(OptionIsSome(h, options[k].n).val)
         THEN Return(h, options[k], <<>>)
         ELSE OptionFindSomeFrom(h, options, k + 1)

OptionFindSome(h, options) == OptionFindSomeFrom(h, options.a, 1)

\* wrapAsync(promise), from the point where `await promise` resumes with the
\* settled promise p
OptionWrapAsyncResumed(h, p) ==
    IF p.state = "fulfilled" THEN OptionSome(h, p.val)
    ELSE Return(h, StaticOptionNone, <<>>)

(***************************************************************************)
(* Result helpers (helpers.ts of the result package)                       *)
(***************************************************************************)
\* a wrapSync that wraps what was thrown in a new Error
ResultWrapSyncWrapped(h, fn) ==
    LET r == Invoke(h, fn, <<>>)
    IN IF r.threw THEN Called(ResultErr(r.h, LibError(ToStr(r.val))), "fn")
       ELSE Called(ResultOk(r.h, r.val), "fn")

\* wrapSync(fn)
ResultWrapSync(h, fn) ==
    LET r == Invoke(h, fn, <<>>)
    IN IF r.threw THEN Called(ResultErr(r.h, r.val), "fn")
       ELSE Called(ResultOk(r.h, r.val), "fn")

\* collect(results): the for-of loop from element k on, `values` so far
RECURSIVE ResultCollectFrom(_, _, _, _)
ResultCollectFrom(h, results, k, values) ==
    IF k > Len(results) THEN ResultOk(h, Arr(values))
    ELSE LET result == results[k].n
         IN IF Truthy(ResultIsErr(h, result).val)
            THEN Return(h, results[k], <<>>)
            ELSE LET v == ResultValue(h, result)
                 IN IF v.threw THEN v
                    ELSE ResultCollectFrom(h, results, k + 1, Append(values, v.val))

\* a collect that keeps scanning and returns the last Err instead of the first
ResultCollectLastErr(h, results) ==
    LET errs == {k \in 1..Len(results.a) : Truthy(ResultIsErr(h, results.a[k].n).val)}
    IN IF errs = {} THEN ResultCollectFrom(h, results.a, 1, <<>>)
       ELSE Return(h, results.a[CHOOSE k \in errs : \A m \in errs : m <= k], <<>>)

ResultCollect(h, results) == ResultCollectFrom(h, results.a, 1, <<>>)

\* wrapAsync(promise), from the point where `await promise` resumes with the
\* settled promise p
ResultWrapAsyncResumed(h, p) ==
    IF p.state = "fulfilled" THEN ResultOk(h, p.val)
    ELSE ResultErr(h, p.val)

(***************************************************************************)
(* The program: a client of one of the two packages that constructs        *)
(* containers and calls the API on them, one call per step.                *)
(***************************************************************************)
NoCall ==
    [op |-> "none", this |-> JsUndefined, args |-> <<>>,
     threw |-> FALSE, val |-> JsUndefined, calls |-> <<>>]

NoPromise == [state |-> "none", val |-> JsUndefined]
Idle == [pc |-> "idle", threw |-> FALSE, val |-> JsUndefined]

Init ==
    /\ pkg \in {"option", "result"}
    /\ heap = <<>>
    /\ last = NoCall
    /\ promise = NoPromise
    /\ task = Idle

\* the instances on the heap
Refs == 1..Len(heap)

\* the arrays of containers the program can hand to a helper
Arrays == UNION {{Arr(a) : a \in [1..n -> {Ref(i) : i \in Refs}]} : n \in 0..MaxLen}

\* the values the program passes as defaults, and the messages it passes to expect
Defaults == {JsNull, Num(1)}
Messages == {Str("boom"), Str("")}

\* container-returning callbacks of each package
OptionFns == {Fn("toSome", 0), Fn("toNone", 0), Fn("throw1", 0)} \cup {Fn("constRef", i) : i \in Refs}
ResultFns == {Fn("toOk", 0), Fn("toErr", 0), Fn("throw1", 0)} \cup {Fn("constRef", i) : i \in Refs}

\* One synchronous call, made when the client is between two statements: it
\* runs to completion, leaving the heap it produced and its outcome for the
\* client to look at.  The client makes calls while at most MaxHeap containers
\* exist (a call constructs at most one).
Ready(package) ==
    /\ pkg = package
    /\ last = NoCall
    /\ Len(heap) <= MaxHeap

Do(op, this, args, out) ==
    /\ heap' = out.h
    /\ last' = [op |-> op, this |-> this, args |-> args,
                threw |-> out.threw, val |-> out.val, calls |-> out.calls]
    /\ UNCHANGED <<pkg, promise, task>>

\* The client is done with the outcome of its last call and moves on to its
\* next statement.  The containers it constructed stay reachable.
Proceed ==
    /\ last # NoCall
    /\ last' = NoCall
    /\ UNCHANGED <<pkg, heap, promise, task>>

----
\* The methods the program calls on `None`, and their arguments.
NoneUses == {"isSome", "isNone", "map", "unwrapOr", "or"}
NoneArgs(name) ==
    CASE name = "map" -> {<<fn>> : fn \in ValueFns}
      [] name = "unwrapOr" -> {<<d>> : d \in Defaults}
      [] name = "or" -> {<<Ref(o)>> : o \in Refs}
      [] OTHER -> {<<>>}

\* Option: construction
CallSome == Ready("option") /\ \E v \in Payloads : Do("Some", JsUndefined, <<v>>, OptionSome(heap, v))
CallNone == Ready("option") /\ Do("None", JsUndefined, <<>>, OptionNone(heap))
CallFromNullable ==
    Ready("option") /\ \E v \in Prims : Do("fromNullable", JsUndefined, <<v>>, OptionFromNullable(heap, v))

\* Option: methods
CallOptionIsSome == Ready("option") /\ \E i \in Refs : Do("isSome", Ref(i), <<>>, OptionIsSome(heap, i))
CallOptionIsNone == Ready("option") /\ \E i \in Refs : Do("isNone", Ref(i), <<>>, OptionIsNone(heap, i))
CallOptionValue == Ready("option") /\ \E i \in Refs : Do("value", Ref(i), <<>>, OptionValue(heap, i))
CallOptionMap ==
    Ready("option") /\ \E i \in Refs, fn \in ValueFns : Do("map", Ref(i), <<fn>>, OptionMap(heap, i, fn))
CallOptionMapOr ==
    Ready("option") /\ \E i \in Refs, d \in Defaults, fn \in ValueFns :
        Do("mapOr", Ref(i), <<d, fn>>, OptionMapOr(heap, i, d, fn))
CallOptionMapOrElse ==
    Ready("option") /\ \E i \in Refs, d \in ThunkFns, fn \in ValueFns :
        Do("mapOrElse", Ref(i), <<d, fn>>, OptionMapOrElse(heap, i, d, fn))
CallOptionFilter ==
    Ready("option") /\ \E i \in Refs, p \in PredFns : Do("filter", Ref(i), <<p>>, OptionFilter(heap, i, p))
CallOptionAnd ==
    Ready("option") /\ \E i \in Refs, o \in Refs : Do("and", Ref(i), <<Ref(o)>>, OptionAnd(heap, i, Ref(o)))
CallOptionAndThen ==
    Ready("option") /\ \E i \in Refs, fn \in OptionFns : Do("andThen", Ref(i), <<fn>>, OptionAndThen(heap, i, fn))
CallOptionOr ==
    Ready("option") /\ \E i \in Refs, o \in Refs : Do("or", Ref(i), <<Ref(o)>>, OptionOr(heap, i, Ref(o)))
CallOptionOrElse ==
    Ready("option") /\ \E i \in Refs, fn \in OptionFns : Do("orElse", Ref(i), <<fn>>, OptionOrElse(heap, i, fn))
CallOptionUnwrap == Ready("option") /\ \E i \in Refs : Do("unwrap", Ref(i), <<>>, OptionUnwrap(heap, i))
CallOptionUnwrapOr ==
    Ready("option") /\ \E i \in Refs, d \in Defaults : Do("unwrapOr", Ref(i), <<d>>, OptionUnwrapOr(heap, i, d))
CallOptionUnwrapOrElse ==
    Ready("option") /\ \E i \in Refs, fn \in ThunkFns :
        Do("unwrapOrElse", Ref(i), <<fn>>, OptionUnwrapOrElse(heap, i, fn))
CallOptionExpect ==
    Ready("option") /\ \E i \in Refs, m \in Messages : Do("expect", Ref(i), <<m>>, OptionExpect(heap, i, m))
CallOptionToNullable ==
    Ready("option") /\ \E i \in Refs : Do("toNullable", Ref(i), <<>>, OptionToNullable(heap, i))
CallOptionToUndefined ==
    Ready("option") /\ \E i \in Refs : Do("toUndefined", Ref(i), <<>>, OptionToUndefined(heap, i))

\* Option: helpers
CallOptionWrapSync ==
    Ready("option") /\ \E fn \in ThunkFns : Do("wrapSync", JsUndefined, <<fn>>, OptionWrapSync(heap, fn))
CallOptionCollect ==
    Ready("option") /\ \E a \in Arrays : Do("collect", JsUndefined, <<a>>, OptionCollect(heap, a))
CallOptionTranspose ==
    Ready("option") /\ \E a \in Arrays : Do("transpose", JsUndefined, <<a>>, OptionTranspose(heap, a))
CallOptionFindSome ==
    Ready("option") /\ \E a \in Arrays : Do("findSome", JsUndefined, <<a>>, OptionFindSome(heap, a))

\* Methods called on the exported `None` itself, as in `const opt = None;
\* opt.isSome()`.
CallOnNone ==
    Ready("option") /\ \E name \in NoneUses :
        \E args \in NoneArgs(name) : Do(name, None, args, CallMethod(heap, None, name, args))

----
\* Result: construction
CallOk == Ready("result") /\ \E v \in Payloads : Do("Ok", JsUndefined, <<v>>, ResultOk(heap, v))
CallErr == Ready("result") /\ \E e \in ErrPayloads : Do("Err", JsUndefined, <<e>>, ResultErr(heap, e))

\* Result: methods
CallResultIsOk == Ready("result") /\ \E i \in Refs : Do("isOk", Ref(i), <<>>, ResultIsOk(heap, i))
CallResultIsErr == Ready("result") /\ \E i \in Refs : Do("isErr", Ref(i), <<>>, ResultIsErr(heap, i))
CallResultValue == Ready("result") /\ \E i \in Refs : Do("value", Ref(i), <<>>, ResultValue(heap, i))
CallResultError == Ready("result") /\ \E i \in Refs : Do("error", Ref(i), <<>>, ResultError(heap, i))
CallResultOkProp == Ready("result") /\ \E i \in Refs : Do("ok", Ref(i), <<>>, ResultOkProp(heap, i))
CallResultMap ==
    Ready("result") /\ \E i \in Refs, fn \in ValueFns : Do("map", Ref(i), <<fn>>, ResultMap(heap, i, fn))
CallResultMapErr ==
    Ready("result") /\ \E i \in Refs, fn \in ValueFns : Do("mapErr", Ref(i), <<fn>>, ResultMapErr(heap, i, fn))
CallResultAnd ==
    Ready("result") /\ \E i \in Refs, o \in Refs : Do("and", Ref(i), <<Ref(o)>>, ResultAnd(heap, i, Ref(o)))
CallResultAndThen ==
    Ready("result") /\ \E i \in Refs, fn \in ResultFns : Do("andThen", Ref(i), <<fn>>, ResultAndThen(heap, i, fn))
CallResultOr ==
    Ready("result") /\ \E i \in Refs, o \in Refs : Do("or", Ref(i), <<Ref(o)>>, ResultOr(heap, i, Ref(o)))
CallResultOrElse ==
    Ready("result") /\ \E i \in Refs, fn \in ResultFns : Do("orElse", Ref(i), <<fn>>, ResultOrElse(heap, i, fn))
CallResultUnwrap == Ready("result") /\ \E i \in Refs : Do("unwrap", Ref(i), <<>>, ResultUnwrap(heap, i))
CallResultUnwrapOr ==
    Ready("result") /\ \E i \in Refs, d \in Defaults : Do("unwrapOr", Ref(i), <<d>>, ResultUnwrapOr(heap, i, d))
CallResultUnwrapOrElse ==
    Ready("result") /\ \E i \in Refs, fn \in ValueFns :
        Do("unwrapOrElse", Ref(i), <<fn>>, ResultUnwrapOrElse(heap, i, fn))
CallResultExpect ==
    Ready("result") /\ \E i \in Refs, m \in Messages : Do("expect", Ref(i), <<m>>, ResultExpect(heap, i, m))

\* Result: helpers
CallResultWrapSync ==
    Ready("result") /\ \E fn \in ThunkFns : Do("wrapSync", JsUndefined, <<fn>>, ResultWrapSync(heap, fn))
CallResultCollect ==
    Ready("result") /\ \E a \in Arrays : Do("collect", JsUndefined, <<a>>, ResultCollect(heap, a))

----
(***************************************************************************)
(* wrapAsync: an async function.  The call runs up to `await promise` and  *)
(* suspends there; the continuation runs once the promise has settled.     *)
(***************************************************************************)
\* the values a promise fulfils with
SettleValues == {Num(1)}

\* the promises the program hands to wrapAsync: pending, or already settled
PromiseInputs ==
    {[state |-> "pending", val |-> JsUndefined]}
        \cup {[state |-> "fulfilled", val |-> v] : v \in SettleValues}
        \cup {[state |-> "rejected", val |-> e] : e \in UserErrors}

\* wrapAsync(promise) is called: the async function suspends at the await
CallWrapAsync ==
    /\ task.pc # "awaiting"
    /\ Len(heap) <= MaxHeap
    /\ \E p \in PromiseInputs : promise' = p
    /\ task' = [pc |-> "awaiting", threw |-> FALSE, val |-> JsUndefined]
    /\ UNCHANGED <<pkg, heap, last>>

\* the environment settles the pending promise
PromiseFulfil ==
    /\ promise.state = "pending"
    /\ \E v \in SettleValues : promise' = [state |-> "fulfilled", val |-> v]
    /\ UNCHANGED <<pkg, heap, last, task>>

PromiseReject ==
    /\ promise.state = "pending"
    /\ \E e \in UserErrors : promise' = [state |-> "rejected", val |-> e]
    /\ UNCHANGED <<pkg, heap, last, task>>

\* the continuation after the await: the async function completes
Resume(out) ==
    /\ task.pc = "awaiting"
    /\ promise.state \in {"fulfilled", "rejected"}
    /\ heap' = out.h
    /\ task' = [pc |-> "done", threw |-> out.threw, val |-> out.val]
    /\ UNCHANGED <<pkg, last, promise>>

OptionWrapAsyncResume == pkg = "option" /\ Resume(OptionWrapAsyncResumed(heap, promise))
ResultWrapAsyncResume == pkg = "result" /\ Resume(ResultWrapAsyncResumed(heap, promise))

----
\* the synchronous API of both packages
Next ==
    \/ Proceed
    \/ CallSome \/ CallNone \/ CallFromNullable
    \/ CallOptionIsSome \/ CallOptionIsNone \/ CallOptionValue
    \/ CallOptionMap \/ CallOptionMapOr \/ CallOptionMapOrElse \/ CallOptionFilter
    \/ CallOptionAnd \/ CallOptionAndThen \/ CallOptionOr \/ CallOptionOrElse
    \/ CallOptionUnwrap \/ CallOptionUnwrapOr \/ CallOptionUnwrapOrElse \/ CallOptionExpect
    \/ CallOptionToNullable \/ CallOptionToUndefined
    \/ CallOptionWrapSync \/ CallOptionCollect \/ CallOptionTranspose \/ CallOptionFindSome
    \/ CallOnNone
    \/ CallOk \/ CallErr
    \/ CallResultIsOk \/ CallResultIsErr \/ CallResultValue \/ CallResultError \/ CallResultOkProp
    \/ CallResultMap \/ CallResultMapErr
    \/ CallResultAnd \/ CallResultAndThen \/ CallResultOr \/ CallResultOrElse
    \/ CallResultUnwrap \/ CallResultUnwrapOr \/ CallResultUnwrapOrElse \/ CallResultExpect
    \/ CallResultWrapSync \/ CallResultCollect

Spec == Init /\ [][Next]_vars

\* the asynchronous bridge of both packages, over containers the client made
NextAsync ==
    \/ Proceed
    \/ CallSome \/ CallNone \/ CallOk \/ CallErr
    \/ CallWrapAsync \/ PromiseFulfil \/ PromiseReject
    \/ OptionWrapAsyncResume \/ ResultWrapAsyncResume

SpecAsync == Init /\ [][NextAsync]_vars

----
(***************************************************************************)
(* What a caller observes of a returned value.  A method call on a value   *)
(* that is no container instance (a function, say) raises a TypeError, so  *)
(* such a value is neither Present nor Absent.                             *)
(***************************************************************************)
IsOption(h, v) == v.t = "object" /\ v.n \in 1..Len(h) /\ h[v.n].cls = "Option"
IsResult(h, v) == v.t = "object" /\ v.n \in 1..Len(h) /\ h[v.n].cls = "Result"

\* v is a container on which isSome() returns true, isNone() false, and whose value is x
IsPresent(h, v, x) ==
    /\ IsOption(h, v)
    /\ OptionIsSome(h, v.n).val = Bool(TRUE)
    /\ OptionIsNone(h, v.n).val = Bool(FALSE)
    /\ OptionValue(h, v.n) = Return(h, x, <<>>)

\* v is a container on which isNone() returns true and isSome() false
IsAbsent(h, v) ==
    /\ IsOption(h, v)
    /\ OptionIsNone(h, v.n).val = Bool(TRUE)
    /\ OptionIsSome(h, v.n).val = Bool(FALSE)

\* v is a Result on which isOk() returns true and whose value is x
IsSuccess(h, v, x) ==
    /\ IsResult(h, v)
    /\ ResultIsOk(h, v.n).val = Bool(TRUE)
    /\ ResultIsErr(h, v.n).val = Bool(FALSE)
    /\ ResultValue(h, v.n) = Return(h, x, <<>>)

\* v is a Result on which isErr() returns true and whose error is e
IsFailure(h, v, e) ==
    /\ IsResult(h, v)
    /\ ResultIsErr(h, v.n).val = Bool(TRUE)
    /\ ResultIsOk(h, v.n).val = Bool(FALSE)
    /\ ResultError(h, v.n) = Return(h, e, <<>>)

\* the last call was `op` of package `package`
Was(package, op) == pkg = package /\ last.op = op

(***************************************************************************)
(* C1.  Totality and mutual exclusion: on every Option instance exactly    *)
(* one of isSome() and isNone() returns true; on every Result instance     *)
(* exactly one of isOk() and isErr() returns true, and the `ok` property   *)
(* equals isOk().                                                          *)
(***************************************************************************)
C1_ExactlyOneVariant ==
    \A i \in Refs :
        /\ heap[i].cls = "Option" =>
            /\ {OptionIsSome(heap, i).val, OptionIsNone(heap, i).val} = {Bool(TRUE), Bool(FALSE)}
            /\ ~OptionIsSome(heap, i).threw /\ ~OptionIsNone(heap, i).threw
        /\ heap[i].cls = "Result" =>
            /\ {ResultIsOk(heap, i).val, ResultIsErr(heap, i).val} = {Bool(TRUE), Bool(FALSE)}
            /\ ~ResultIsOk(heap, i).threw /\ ~ResultIsErr(heap, i).threw
            /\ ResultOkProp(heap, i) = ResultIsOk(heap, i)

\* a combinator has just returned a Present Option holding undefined
C1_Witness ==
    /\ Was("option", "map") /\ ~last.threw
    /\ IsPresent(heap, last.val, JsUndefined)
    /\ last.val # last.this

(***************************************************************************)
(* C2.  Immutability: no step changes the variant or the payload of a      *)
(* container that exists; a step only adds instances.                      *)
(***************************************************************************)
C2_Immutable ==
    [][/\ Len(heap') >= Len(heap)
       /\ \A i \in 1..Len(heap) : heap'[i] = heap[i]]_vars

\* map has run its callback on a Present container and returned a container
\* with another payload, while the receiver still holds its own
C2_Witness ==
    /\ Was("option", "map") /\ ~last.threw
    /\ last.calls = <<"fn">>
    /\ IsPresent(heap, last.this, JsUndefined)
    /\ IsPresent(heap, last.val, Num(1))

----
(***************************************************************************)
(* The helpers' arguments and expected results, read off the heap.        *)
(***************************************************************************)
\* the array handed to the last helper call, and the positions in it that
\* hold a Some (resp. an Err)
LastArray == last.args[1].a
SomeAt == {k \in 1..Len(LastArray) : heap[LastArray[k].n]._isSome}
ErrAt == {k \in 1..Len(LastArray) : ~heap[LastArray[k].n]._isOk}
Lowest(S) == CHOOSE k \in S : \A m \in S : k <= m

\* the j-th smallest position of S
Nth(S, j) == CHOOSE k \in S : Cardinality({m \in S : m <= k}) = j

\* what the thunk handed to the last wrapSync call does when run
ThunkOutcome == Invoke(<<>>, last.args[1], <<>>)

(***************************************************************************)
(* C3.  Option collect: all elements Present gives Present of the values   *)
(* in input order (Present([]) for the empty array); any element Absent    *)
(* gives an Absent Option, on which isNone() is true and isSome() false.   *)
(***************************************************************************)
C3_OptionCollect ==
    Was("option", "collect") =>
        /\ ~last.threw
        /\ IF SomeAt = 1..Len(LastArray)
           THEN IsPresent(heap, last.val,
                          Arr([k \in 1..Len(LastArray) |-> heap[LastArray[k].n]._value]))
           ELSE IsAbsent(heap, last.val)

\* the part of C3 that the code meets: the all-Present case
C3_OptionCollectAllPresent ==
    (Was("option", "collect") /\ SomeAt = 1..Len(LastArray)) =>
        /\ ~last.threw
        /\ IsPresent(heap, last.val,
                     Arr([k \in 1..Len(LastArray) |-> heap[LastArray[k].n]._value]))

(***************************************************************************)
(* C4.  Result collect: with at least one Err the result is a Failure      *)
(* carrying the error of the lowest-index Err element; with none it is     *)
(* Success of the values in input order (Success([]) for the empty array). *)
(***************************************************************************)
C4_ResultCollect ==
    Was("result", "collect") =>
        /\ ~last.threw
        /\ IF ErrAt # {}
           THEN IsFailure(heap, last.val, heap[LastArray[Lowest(ErrAt)].n]._error)
           ELSE IsSuccess(heap, last.val,
                          Arr([k \in 1..Len(LastArray) |-> heap[LastArray[k].n]._value]))

\* collect has run on two Err elements with different errors
C4_Witness ==
    /\ Was("result", "collect")
    /\ Len(LastArray) = 2 /\ ErrAt = {1, 2}
    /\ heap[LastArray[1].n]._error # heap[LastArray[2].n]._error
    /\ IsFailure(heap, last.val, heap[LastArray[1].n]._error)

(***************************************************************************)
(* C5.  findSome: the result is the lowest-index Present element when one  *)
(* exists, and an Absent Option (isNone() true, isSome() false) when the   *)
(* array is empty or all its elements are Absent.                          *)
(***************************************************************************)
C5_FindSome ==
    Was("option", "findSome") =>
        /\ ~last.threw
        /\ IF SomeAt # {}
           THEN /\ last.val = LastArray[Lowest(SomeAt)]
                /\ IsPresent(heap, last.val, heap[LastArray[Lowest(SomeAt)].n]._value)
           ELSE IsAbsent(heap, last.val)

(***************************************************************************)
(* C6.  transpose: the result is the array of the values of exactly the    *)
(* Present elements, in input order; its length is the number of Present   *)
(* elements ([] when there is none); the call never raises.                *)
(***************************************************************************)
C6_Transpose ==
    Was("option", "transpose") =>
        /\ ~last.threw
        /\ last.val.t = "array"
        /\ Len(last.val.a) = Cardinality(SomeAt)
        /\ \A j \in 1..Len(last.val.a) :
               last.val.a[j] = heap[LastArray[Nth(SomeAt, j)].n]._value

\* transpose has run on [None, Some(v)] and returned [v]
C6_Witness ==
    /\ Was("option", "transpose")
    /\ Len(LastArray) = 2 /\ SomeAt = {2}
    /\ last.val = Arr(<<heap[LastArray[2].n]._value>>)

(***************************************************************************)
(* C7.  Option wrapSync: fn is invoked exactly once and the call never     *)
(* raises; a returned v gives Present(v), a throw gives an Absent Option   *)
(* (isNone() true, isSome() false).                                        *)
(***************************************************************************)
C7_OptionWrapSync ==
    Was("option", "wrapSync") =>
        /\ ~last.threw
        /\ last.calls = <<"fn">>
        /\ IF ThunkOutcome.threw
           THEN IsAbsent(heap, last.val)
           ELSE IsPresent(heap, last.val, ThunkOutcome.val)

(***************************************************************************)
(* C8.  Result wrapSync: fn is invoked exactly once and the call never     *)
(* raises; a returned v gives Success(v), a thrown object e gives a        *)
(* Failure whose error is that same object e.                              *)
(***************************************************************************)
C8_ResultWrapSync ==
    Was("result", "wrapSync") =>
        /\ ~last.threw
        /\ last.calls = <<"fn">>
        /\ IF ThunkOutcome.threw
           THEN IsFailure(heap, last.val, ThunkOutcome.val)
           ELSE IsSuccess(heap, last.val, ThunkOutcome.val)

\* wrapSync has run a thunk that throws the second of the two error objects
C8_Witness ==
    /\ Was("result", "wrapSync")
    /\ last.args[1] = Fn("throw2", 0)
    /\ IsFailure(heap, last.val, ErrorObj(2, "test error"))

(***************************************************************************)
(* C9.  wrapAsync of both packages: the returned computation completes     *)
(* only once the supplied promise has settled (so never, if the promise    *)
(* never settles) and never rejects; fulfilment with v gives Present(v) /  *)
(* Success(v); rejection with r gives an Absent Option (isNone() true) /   *)
(* Failure(r).                                                             *)
(***************************************************************************)
C9_WrapAsync ==
    task.pc = "done" =>
        /\ promise.state \in {"fulfilled", "rejected"}
        /\ ~task.threw
        /\ promise.state = "fulfilled" =>
               IF pkg = "option" THEN IsPresent(heap, task.val, promise.val)
               ELSE IsSuccess(heap, task.val, promise.val)
        /\ promise.state = "rejected" =>
               IF pkg = "option" THEN IsAbsent(heap, task.val)
               ELSE IsFailure(heap, task.val, promise.val)

\* the part of C9 that the code meets: everything but the Option package's
\* result on rejection
C9_WrapAsyncBesidesOptionRejection ==
    task.pc = "done" =>
        /\ promise.state \in {"fulfilled", "rejected"}
        /\ ~task.threw
        /\ promise.state = "fulfilled" =>
               IF pkg = "option" THEN IsPresent(heap, task.val, promise.val)
               ELSE IsSuccess(heap, task.val, promise.val)
        /\ (promise.state = "rejected" /\ pkg = "result") =>
               IsFailure(heap, task.val, promise.val)

(***************************************************************************)
(* C10.  fromNullable(v) is Absent exactly when v is null or undefined;    *)
(* for every other value, 0, false and "" included, it is Present          *)
(* holding v.                                                              *)
(***************************************************************************)
C10_FromNullable ==
    Was("option", "fromNullable") =>
        /\ ~last.threw
        /\ IF last.args[1] \in {JsNull, JsUndefined}
           THEN IsAbsent(heap, last.val)
           ELSE IsPresent(heap, last.val, last.args[1])

\* fromNullable has run on a falsy value that is not missing
C10_Witness ==
    /\ Was("option", "fromNullable")
    /\ last.args[1] \in {Num(0), Bool(FALSE), Str("")}
    /\ IsPresent(heap, last.val, last.args[1])

----
\* the receiver of the last call, when it is a container instance
This == heap[last.this.n]

\* the last call raised an Error with exactly this message
RaisedWith(msg) == last.threw /\ last.val.t = "error" /\ last.val.s = msg

\* the last call returned v
Returned(v) == ~last.threw /\ last.val = v

(***************************************************************************)
(* C11.  Option fallible access: on an Absent Option `value` raises with   *)
(* "Called value on a None option", unwrap() with "Called unwrap on a None *)
(* value" and expect(m) with exactly m; on Present(v) all three return v.  *)
(***************************************************************************)
C11_OptionFallibleAccess ==
    (pkg = "option" /\ IsOption(heap, last.this)) =>
        /\ last.op = "value" =>
               IF This._isSome THEN Returned(This._value)
               ELSE RaisedWith("Called value on a None option")
        /\ last.op = "unwrap" =>
               IF This._isSome THEN Returned(This._value)
               ELSE RaisedWith("Called unwrap on a None value")
        /\ last.op = "expect" =>
               IF This._isSome THEN Returned(This._value)
               ELSE RaisedWith(last.args[1].s)

\* expect("boom") has run on an Absent Option and raised "boom"
C11_Witness ==
    /\ Was("option", "expect") /\ IsAbsent(heap, last.this)
    /\ last.args = <<Str("boom")>>
    /\ RaisedWith("boom")

(***************************************************************************)
(* C12.  Result fallible access: on Failure(e) `value` raises with         *)
(* "Called value on an Err result", unwrap() with "Called unwrap on an Err *)
(* value: " + the string form of e, expect(m) with m + ": " + the string   *)
(* form of e; on Success(v) `error` raises with "Called error on an Ok     *)
(* result" and value, unwrap(), expect(m) return v; `error` on Failure(e)  *)
(* returns e: none of the four raises in any other case.                   *)
(***************************************************************************)
C12_ResultFallibleAccess ==
    (pkg = "result" /\ IsResult(heap, last.this)) =>
        /\ last.op = "value" =>
               IF This._isOk THEN Returned(This._value)
               ELSE RaisedWith("Called value on an Err result")
        /\ last.op = "error" =>
               IF This._isOk THEN RaisedWith("Called error on an Ok result")
               ELSE Returned(This._error)
        /\ last.op = "unwrap" =>
               IF This._isOk THEN Returned(This._value)
               ELSE RaisedWith("Called unwrap on an Err value: " \o ToStr(This._error))
        /\ last.op = "expect" =>
               IF This._isOk THEN Returned(This._value)
               ELSE RaisedWith(last.args[1].s \o ": " \o ToStr(This._error))

\* expect("boom") has run on Err("error") and raised "boom: error"
C12_Witness ==
    /\ Was("result", "expect") /\ IsFailure(heap, last.this, Str("error"))
    /\ last.args = <<Str("boom")>>
    /\ RaisedWith("boom: error")

\* the unwrap message of the package's own test: Err("error").unwrap()
C12_UnwrapMessageOfTest ==
    (Was("result", "unwrap") /\ IsFailure(heap, last.this, Str("error"))) =>
        RaisedWith("Called unwrap on an Err value: error")

(***************************************************************************)
(* C13.  Functor identity: x.map(identity) has the same variant and the    *)
(* same payload as x (value for Present / Success, error for Failure),     *)
(* for every Option x and every Result x.                                  *)
(***************************************************************************)
C13_MapIdentity ==
    (last.op = "map" /\ last.args = <<Fn("identity", 0)>>
        /\ (IsOption(heap, last.this) \/ IsResult(heap, last.this))) =>
        /\ ~last.threw
        /\ IF pkg = "option" THEN IsOption(heap, last.val) ELSE IsResult(heap, last.val)
        /\ heap[last.val.n] = This

\* map(identity) has run on Present(undefined) and returned another Present(undefined)
C13_Witness ==
    /\ Was("option", "map") /\ last.args = <<Fn("identity", 0)>>
    /\ IsPresent(heap, last.this, JsUndefined)
    /\ IsPresent(heap, last.val, JsUndefined)

(***************************************************************************)
(* C14.  Bind associativity: after x.andThen(f), for every container-      *)
(* returning g, x.andThen(f).andThen(g) has the same outcome (variant and  *)
(* payload, or the error thrown by a callback) as                          *)
(* x.andThen(v => f(v).andThen(g)), for Option and for Result.             *)
(***************************************************************************)
SameOutcome(l, r) ==
    /\ l.threw = r.threw
    /\ IF l.threw THEN l.val = r.val ELSE l.h[l.val.n] = r.h[r.val.n]

C14_BindAssociativity ==
    /\ (Was("option", "andThen") /\ IsOption(heap, last.this)) =>
           \A g \in OptionFns :
               LET nested == OptionAndThen(heap, last.this.n, Compose(last.args[1], g))
               IN IF last.threw THEN nested.threw /\ nested.val = last.val
                  ELSE SameOutcome(OptionAndThen(heap, last.val.n, g), nested)
    /\ (Was("result", "andThen") /\ IsResult(heap, last.this)) =>
           \A g \in ResultFns :
               LET nested == ResultAndThen(heap, last.this.n, Compose(last.args[1], g))
               IN IF last.threw THEN nested.threw /\ nested.val = last.val
                  ELSE SameOutcome(ResultAndThen(heap, last.val.n, g), nested)

\* andThen(v => Some(v)) has run on a Present Option and returned a Present
\* one, so that a second andThen runs its callback too
C14_Witness ==
    /\ Was("option", "andThen") /\ last.args = <<Fn("toSome", 0)>>
    /\ IsPresent(heap, last.this, Num(1))
    /\ IsPresent(heap, last.val, Num(1))
    /\ IsAbsent(OptionAndThen(heap, last.val.n, Fn("toNone", 0)).h,
                OptionAndThen(heap, last.val.n, Fn("toNone", 0)).val)

(***************************************************************************)
(* C15.  Short-circuit laws: Absent.and(other) is Absent and               *)
(* Failure(e).and(other) is a Failure with the error e, whatever other is; *)
(* Present(v).and(other) and Success(v).and(other) are other; dually       *)
(* Present(v).or(other) is Present(v), Success(v).or(other) is Success(v), *)
(* and Absent.or(other), Failure(e).or(other) are other.                   *)
(***************************************************************************)
C15_ShortCircuit ==
    /\ (Was("option", "and") /\ IsOption(heap, last.this)) =>
           /\ ~last.threw
           /\ IF This._isSome THEN last.val = last.args[1]
                              ELSE IsAbsent(heap, last.val)
    /\ (Was("option", "or") /\ IsOption(heap, last.this)) =>
           /\ ~last.threw
           /\ IF This._isSome THEN IsPresent(heap, last.val, This._value)
                              ELSE last.val = last.args[1]
    /\ (Was("result", "and") /\ IsResult(heap, last.this)) =>
           /\ ~last.threw
           /\ IF This._isOk THEN last.val = last.args[1]
                            ELSE IsFailure(heap, last.val, This._error)
    /\ (Was("result", "or") /\ IsResult(heap, last.this)) =>
           /\ ~last.threw
           /\ IF This._isOk THEN IsSuccess(heap, last.val, This._value)
                            ELSE last.val = last.args[1]

\* Failure("error").and(Success(1)) has returned a Failure holding "error"
C15_Witness ==
    /\ Was("result", "and")
    /\ IsFailure(heap, last.this, Str("error"))
    /\ IsSuccess(heap, last.args[1], Num(1))
    /\ IsFailure(heap, last.val, Str("error"))

(***************************************************************************)
(* C16.  Callbacks are invoked lazily and at most once per call:           *)
(* Option.map / andThen / mapOr / mapOrElse invoke fn exactly once on      *)
(* Present and never on Absent; mapOrElse's defaultFn and the fn of        *)
(* Option.orElse / unwrapOrElse are invoked exactly once on Absent and     *)
(* never on Present; Result.map / andThen never invoke fn on Failure, and  *)
(* Result.mapErr / orElse / unwrapOrElse never invoke fn on Success.       *)
(***************************************************************************)
OnPresentOps == {"map", "andThen", "mapOr", "mapOrElse"}
OnAbsentOps == {"orElse", "unwrapOrElse"}
OnSuccessOps == {"map", "andThen"}
OnFailureOps == {"mapErr", "orElse", "unwrapOrElse"}

C16_LazyCallbacks ==
    /\ (pkg = "option" /\ last.op \in OnPresentOps /\ IsOption(heap, last.this)) =>
           last.calls = IF This._isSome THEN <<"fn">>
                        ELSE IF last.op = "mapOrElse" THEN <<"defaultFn">> ELSE <<>>
    /\ (pkg = "option" /\ last.op \in OnAbsentOps /\ IsOption(heap, last.this)) =>
           last.calls = IF This._isSome THEN <<>> ELSE <<"fn">>
    /\ (pkg = "result" /\ last.op \in OnSuccessOps /\ IsResult(heap, last.this)) =>
           last.calls = IF This._isOk THEN <<"fn">> ELSE <<>>
    /\ (pkg = "result" /\ last.op \in OnFailureOps /\ IsResult(heap, last.this)) =>
           last.calls = IF This._isOk THEN <<>> ELSE <<"fn">>

\* unwrapOrElse on a Present Option has returned the payload without calling fn
C16_Witness ==
    /\ Was("option", "unwrapOrElse")
    /\ IsPresent(heap, last.this, Num(1))
    /\ Returned(Num(1))
    /\ last.calls = <<>>

\* mapOrElse on an Absent Option has called defaultFn, once, and not fn
C16_WitnessDefaultFn ==
    /\ Was("option", "mapOrElse")
    /\ IsAbsent(heap, last.this)
    /\ last.calls = <<"defaultFn">>

(***************************************************************************)
(* C17.  Result.map transforms only the success channel and Result.mapErr  *)
(* only the failure channel: Failure(e).map(f) is a Failure with the same  *)
(* error e, Success(v).map(f) is Success(f(v)), Success(v).mapErr(g) is a  *)
(* Success with the same value v, and Failure(e).mapErr(g) is              *)
(* Failure(g(e)); when the callback throws, the call throws that error.    *)
(***************************************************************************)
Applied(x) == Invoke(heap, last.args[1], <<x>>)

C17_MapChannels ==
    /\ (Was("result", "map") /\ IsResult(heap, last.this)) =>
           IF This._isOk
           THEN IF Applied(This._value).threw
                THEN last.threw /\ last.val = Applied(This._value).val
                ELSE ~last.threw /\ IsSuccess(heap, last.val, Applied(This._value).val)
           ELSE ~last.threw /\ IsFailure(heap, last.val, This._error)
    /\ (Was("result", "mapErr") /\ IsResult(heap, last.this)) =>
           IF This._isOk
           THEN ~last.threw /\ IsSuccess(heap, last.val, This._value)
           ELSE IF Applied(This._error).threw
                THEN last.threw /\ last.val = Applied(This._error).val
                ELSE ~last.threw /\ IsFailure(heap, last.val, Applied(This._error).val)

\* map(() => 1) on a Failure holding an error object has returned a Failure
\* holding that very object
C17_Witness ==
    /\ Was("result", "map") /\ last.args = <<Fn("constOne", 0)>>
    /\ IsFailure(heap, last.this, ErrorObj(1, "test error"))
    /\ IsFailure(heap, last.val, ErrorObj(1, "test error"))

\* mapErr(() => 1) on a Failure has returned Failure(1)
C17_WitnessMapErr ==
    /\ Was("result", "mapErr") /\ last.args = <<Fn("constOne", 0)>>
    /\ IsFailure(heap, last.this, Str("error"))
    /\ IsFailure(heap, last.val, Num(1))

(***************************************************************************)
(* C18.  The exported None, used directly as a value without being         *)
(* called, is an Absent Option: None.isSome() is false, None.isNone() is   *)
(* true, None.map(f) is Absent, None.unwrapOr(d) is d, and None.or(other)  *)
(* is other.                                                               *)
(***************************************************************************)
C18_NoneIsAbsent ==
    (pkg = "option" /\ last # NoCall /\ last.this = None) =>
        CASE last.op = "isSome" -> Returned(Bool(FALSE))
          [] last.op = "isNone" -> Returned(Bool(TRUE))
          [] last.op = "map" -> ~last.threw /\ IsAbsent(heap, last.val)
          [] last.op = "unwrapOr" -> Returned(last.args[1])
          [] last.op = "or" -> Returned(last.args[1])
          [] OTHER -> TRUE

\* what the code does instead: every method call on None raises a TypeError
C18_NoneIsAFunction ==
    (pkg = "option" /\ last # NoCall /\ last.this = None) =>
        RaisedWith("TypeError: " \o last.op \o " is not a function")

\* None(), called, is Absent: the factory behind the export works
C18_NoneCalledIsAbsent == Was("option", "None") => ~last.threw /\ IsAbsent(heap, last.val)

(***************************************************************************)
(* C19.  Every combinator that returns a container (Option map, filter,    *)
(* and, andThen, or, orElse; Result map, mapErr, and, andThen, or, orElse) *)
(* returns a container distinct in identity from the receiver and from     *)
(* any container passed in as an argument.                                 *)
(***************************************************************************)
Combinators == {"map", "mapErr", "filter", "and", "andThen", "or", "orElse"}

C19_AlwaysNewInstance ==
    (/\ last.op \in Combinators
     /\ IsOption(heap, last.this) \/ IsResult(heap, last.this)
     /\ ~last.threw) =>
        /\ last.val # last.this
        /\ \A k \in 1..Len(last.args) : last.val # last.args[k]

(***************************************************************************)
(* C19, as the code has it.  A combinator constructs an instance only      *)
(* where it has something to wrap: Option.map always; Option.filter, and,  *)
(* andThen on Absent, and filter when the predicate rejects; Result.map on *)
(* Success and Result.mapErr on Failure.  Otherwise it hands back an       *)
(* existing reference: the receiver itself (Option.filter when the         *)
(* predicate accepts, Option.or / orElse on Present, Result.map / and /    *)
(* andThen on Failure, Result.mapErr / or / orElse on Success), the        *)
(* argument `other` itself (and on Present / Success, or on Absent /       *)
(* Failure), or whatever the callback returned (andThen, orElse).          *)
(***************************************************************************)
C19_Step(h, l) ==
    LET x == h[l.this.n]
        fresh == l.val = Ref(Len(h) + 1) /\ Len(heap') = Len(h) + 1
        self == l.val = l.this /\ heap' = h
        other == l.val = l.args[1] /\ heap' = h
        fnOf(args) == l.val = Invoke(h, l.args[1], args).val
    IN IF x.cls = "Option"
       THEN CASE l.op = "map" -> fresh
              [] l.op = "filter" ->
                    IF x._isSome /\ Truthy(Invoke(h, l.args[1], <<x._value>>).val)
                    THEN self ELSE fresh
              [] l.op = "and" -> IF x._isSome THEN other ELSE fresh
              [] l.op = "andThen" -> IF x._isSome THEN fnOf(<<x._value>>) ELSE fresh
              [] l.op = "or" -> IF x._isSome THEN self ELSE other
              [] l.op = "orElse" -> IF x._isSome THEN self ELSE fnOf(<<>>)
       ELSE CASE l.op = "map" -> IF x._isOk THEN fresh ELSE self
              [] l.op = "mapErr" -> IF x._isOk THEN self ELSE fresh
              [] l.op = "and" -> IF x._isOk THEN other ELSE self
              [] l.op = "andThen" -> IF x._isOk THEN fnOf(<<x._value>>) ELSE self
              [] l.op = "or" -> IF x._isOk THEN self ELSE other
              [] l.op = "orElse" -> IF x._isOk THEN self ELSE fnOf(<<x._error>>)

C19_NewOnlyWhenWrapping ==
    [][(/\ last = NoCall
        /\ last'.op \in Combinators
        /\ IsOption(heap, last'.this) \/ IsResult(heap, last'.this)
        /\ ~last'.threw) => C19_Step(heap, last')]_vars

\* filter with an accepting predicate has returned the receiver itself
C19_Witness ==
    /\ Was("option", "filter") /\ last.args = <<Fn("truthy", 0)>>
    /\ IsPresent(heap, last.this, Num(1))
    /\ ~last.threw /\ last.val = last.this

\* map on a Failure has returned the receiver itself
C19_WitnessResultMap ==
    /\ Was("result", "map")
    /\ IsFailure(heap, last.this, Str("error"))
    /\ ~last.threw /\ last.val = last.this

(***************************************************************************)
(* C20.  Nullable round trip: toNullable() yields null and toUndefined()   *)
(* yields undefined on Absent, and both yield v on Present(v); for every   *)
(* Option x that is Absent or is Present with a payload other than null /  *)
(* undefined, fromNullable of either conversion has the same variant and   *)
(* payload as x.                                                           *)
(***************************************************************************)
Missing == {JsNull, JsUndefined}

C20_NullableRoundTrip ==
    (pkg = "option" /\ last.op \in {"toNullable", "toUndefined"} /\ IsOption(heap, last.this)) =>
        LET back == OptionFromNullable(heap, last.val)
        IN /\ Returned(IF This._isSome THEN This._value
                       ELSE IF last.op = "toNullable" THEN JsNull ELSE JsUndefined)
           /\ ~back.threw
           /\ ~This._isSome => IsAbsent(back.h, back.val)
           /\ (This._isSome /\ This._value \notin Missing) =>
                  IsPresent(back.h, back.val, This._value)

\* toNullable has run on Present(0) and returned 0, which fromNullable turns
\* back into Present(0)
C20_Witness ==
    /\ Was("option", "toNullable")
    /\ IsPresent(heap, last.this, Num(0))
    /\ Returned(Num(0))
    /\ IsPresent(OptionFromNullable(heap, last.val).h, OptionFromNullable(heap, last.val).val, Num(0))

\* the excluded case is real: Present(undefined) does not survive the round trip
C20_WitnessExcluded ==
    /\ Was("option", "toUndefined")
    /\ IsPresent(heap, last.this, JsUndefined)
    /\ IsAbsent(OptionFromNullable(heap, last.val).h, OptionFromNullable(heap, last.val).val)

====
